---- MODULE Spec2Model ----
(***************************************************************************)
(* grav1an: the adaptive quality-targeting subsystem.                      *)
(*                                                                         *)
(*   Spec / FairSpec   one scoring round of get_ssimu2 (ssimulacra2.rs):   *)
(*                     the worker threads running calc_score on the       *)
(*                     mutex-guarded (cursor, decoders) tuple, the mpsc   *)
(*                     result channel and the aggregation loop.           *)
(*   SearchSpec        the per-file quantizer search of process_command   *)
(*                     (main.rs): four trial rounds, each an optional     *)
(*                     trial encode followed by get_ssimulacra2, then     *)
(*                     zone_overrides.                                     *)
(*   AvgSpec           the aggregation loop of get_ssimu2 on a round long *)
(*                     enough to pass the averaging window.               *)
(*   ColourSpec        color_data (main.rs) and the colour configuration  *)
(*                     get_ssimu2 builds from it.                         *)
(*   FlowSpec          the file checks of process_command (main.rs) that  *)
(*                     decide which of scene detection, the search and    *)
(*                     the final encode run.                              *)
(*   VsSpec            one call of get_vs_ssimu2 (ssimulacra2.rs): the     *)
(*                     request loop, the completion callbacks, the final  *)
(*                     wait loop and the stall prompt.                    *)
(***************************************************************************)
EXTENDS Integers, Sequences, FiniteSets, TLC

\* ------------------------------------------------------------------ bounds
\* largest value of available_parallelism() explored
MaxAP == 4
\* largest number of frames a decoder yields
MaxFrames == 3
\* largest downsample stride (args.cycle)
MaxCycle == 2
\* largest number of results of a long round
MaxResults == 12
\* largest number of frames of the clip get_vs_ssimu2 scores
MaxVsFrames == 4

\* ------------------------------------------------------- program constants
\* the `inc` argument every call of calc_score in get_ssimu2 passes
Inc == 1
\* window of the progress average
AvgWindow == 10

\* Option::None for a frame, a frame count or a worker-local slot
None == -1

Min(a, b) == IF a < b THEN a ELSE b
Max(a, b) == IF a > b THEN a ELSE b

VARIABLES
    \* --- get_ssimu2 ---
    ap,         \* available_parallelism().get()
    threads,    \* let threads
    cycle,      \* cycle: u8
    srcLen,     \* frames the reference decoder yields before end-of-stream
    dstLen,     \* frames the distorted decoder yields before end-of-stream
    total_frames,   \* skip_content.get_frame_count().ok()
    distort_frames, \* distort_content.get_frame_count().ok()
    warned,     \* the frame count mismatch warning was printed
    srcPos,     \* read position of the reference decoder   (guard.1.0)
    dstPos,     \* read position of the distorted decoder   (guard.1.1)
    cursor,     \* guard.0
    mtx,        \* holder of the Mutex: 0 when free, else the worker
    wpc,        \* position of each worker thread
    curr_frame, \* worker local: curr_frame
    src_frame,  \* worker local: src_frame (the frame's place in its stream)
    dst_frame,  \* worker local: dst_frame
    wscore,     \* worker local: the computed score
    spawned,    \* threads spawned so far by the for loop
    mpc,        \* position of the thread running get_ssimu2
    chan,       \* result channel: FrameScores sent and not yet received
    emitted,    \* every FrameScore sent so far, in arrival order
    results,    \* let mut results = BTreeMap::new()
    avg,        \* let mut avg, a fraction <<numerator, denominator>>
    \* --- process_command: the quantizer search of one source file ---
    args,        \* Args: encoder, quantizer, quantizer_calc, quantizer_range, speed
    clip,        \* the skip-frame reference clip: its frame count and its content
    scenes_file, \* the pristine scene description (<base>_scenes.json)
    scenes_over, \* the override scene description (<base>_override.json)
    scenes_info, \* let mut scenes_info: the scenes read from scenes_file
    out,         \* the trial outputs _lowest/_low/_high/_highest.mkv
    cache,       \* the score caches _lowest/_low/_high/_highest.ssimu2
    quantizers,  \* lowest_quantizer, low_quantizer, high_quantizer, highest_quantizer
    trial,       \* the trial round process_command is in, 1..4
    spc,         \* position of process_command
    enc,         \* the av1an child process: its state and the trial it encodes
    sresults,    \* get_ssimulacra2: let results
    solved,      \* zone_overrides: let q, for each scene in turn
    trace,       \* what was invoked so far, in order
    \* --- get_vs_ssimu2 ---
    vthreads,    \* let threads = available_parallelism().unwrap().get()
    frames,      \* let frames = reference.info().num_frames
    vcycle,      \* cycle: u8
    checks,      \* the build checks integer overflow (debug) or wraps (release)
    index,       \* for index in 0..frames
    jobs,        \* let mut jobs = 0u8
    reg,         \* main thread: the value `jobs += 1` has read and not yet written
    inflight,    \* frames requested with get_frame_async, callback not yet started
    cb,          \* the completion callback that is running, if any
    vresults,    \* let mut results = BTreeMap::new()
    vavg,        \* let mut avg, a fraction <<numerator, denominator>>
    vpc,         \* position of the thread running get_vs_ssimu2
    input,       \* let mut input: String, the line read at the prompt
    proc,        \* the process: running, exited (exit(0)) or aborted (panic)
    vret,        \* what get_vs_ssimu2 returned
    \* --- the colour configuration of a source file ---
    stream,      \* vinfo[0].stream: the colour tags ffprobe reports
    src_info,    \* get_ssimu2: src_info, the frame size of the reference clip
    cdata,       \* (cr, matrix, transfer, primaries) returned by color_data
    yuv,         \* get_ssimu2: src_config, the YuvConfig used for scoring
    cpc,         \* position: color_data, get_ssimu2, done or panic
    \* --- process_command: the files of one source file ---
    flags,       \* args.single_pass and args.parameters.is_some()
    files,       \* the temporary files: absent, old (of an earlier run) or new
    ppc,         \* position of process_command in lines 1342-1394
    ops          \* the child processes and scoring rounds run so far, in order

poolVars == <<ap, threads, cycle, srcLen, dstLen, total_frames, distort_frames,
              warned, srcPos, dstPos, cursor, mtx, wpc, curr_frame, src_frame,
              dst_frame, wscore, spawned, mpc, chan, emitted, results, avg>>

searchVars == <<args, clip, scenes_file, scenes_over, scenes_info, out, cache,
                quantizers, trial, spc, enc, sresults, solved, trace>>

vsVars == <<vthreads, frames, vcycle, checks, index, jobs, reg, inflight, cb,
            vresults, vavg, vpc, input, proc, vret>>

colourVars == <<stream, src_info, cdata, yuv, cpc>>

flowVars == <<flags, files, ppc, ops>>

outerVars == <<colourVars, flowVars>>

vars == <<poolVars, searchVars, vsVars, outerVars>>

\* ------------------------------------------------------------ get_ssimu2
\* let threads = available_parallelism().unwrap().get() / 2usize;
Threads(n) == n \div 2

MaxThreads == Threads(MaxAP)
Workers == 1..MaxThreads

\* the condition of the WARNING
FrameCountMismatch(df, tf) == df # None /\ tf # None /\ df # tf

\* Decoder::read_video_frame: the next frame of the stream, or None at
\* end-of-stream; the stream is sequential, a frame is named by its place.
ReadFrame(pos, len) == IF pos < len THEN pos ELSE None
AfterRead(pos, len) == IF pos < len THEN pos + 1 ELSE pos

\* compute_frame_ssimulacra2: an opaque function of the two frames. It is
\* injective on pairs, so a score tells which two frames it was computed from.
Score(sf, df) == (2 ^ sf) * (3 ^ df)

\* iterations the skip loop `for ii in 1..inc` runs: it reads one more pair
\* per iteration and breaks after the first read that hits end-of-stream
SkipIterations(sp, dp) ==
    Min(Inc - 1, 1 + Min(srcLen - sp, dstLen - dp))

\* (mutant) the cursor is left where it was
AdvanceCursorStuck(c) == c

\* guard.0 += inc
AdvanceCursor(c) == c + Inc

\* (mutant) the frame index is inserted without the stride
InsertNoStride(map, fs) ==
    [k \in (DOMAIN map) \cup {fs[1]} |-> IF k = fs[1] THEN fs[2] ELSE map[k]]

\* results.insert(score.0 * cycle as usize, score.1)
Insert(map, fs) ==
    LET key == fs[1] * cycle
    IN  [k \in (DOMAIN map) \cup {key} |-> IF k = key THEN fs[2] ELSE map[k]]

\* fractions for the f64 progress average
RECURSIVE GCD(_, _)
GCD(a, b) == IF b = 0 THEN a ELSE GCD(b, a % b)
Abs(a) == IF a < 0 THEN -a ELSE a
Norm(n, d) ==
    LET g == GCD(Abs(n), d)
    IN  IF n = 0 THEN <<0, 1>> ELSE <<n \div g, d \div g>>

\* (mutant) the divisor is the number of results, without the window
UpdateAvgCumulative(a, score, len) ==
    Norm(a[1] * len + (score * a[2] - a[1]), a[2] * len)

\* avg = avg + (score.1 - avg) / (min(results.len(), 10) as f64)
UpdateAvg(a, score, len) ==
    LET m == Min(len, AvgWindow)
    IN  Norm(a[1] * m + (score * a[2] - a[1]), a[2] * m)

PoolInit ==
    /\ ap \in 1..MaxAP
    /\ threads = Threads(ap)
    /\ cycle \in 0..MaxCycle
    /\ srcLen \in 0..MaxFrames
    /\ dstLen \in 0..MaxFrames
    /\ total_frames \in {None, srcLen}
    /\ distort_frames \in {None, dstLen}
    /\ warned = FrameCountMismatch(distort_frames, total_frames)
    /\ srcPos = 0
    /\ dstPos = 0
    /\ cursor = 0
    /\ mtx = 0
    /\ wpc = [w \in Workers |-> "unspawned"]
    /\ curr_frame = [w \in Workers |-> None]
    /\ src_frame = [w \in Workers |-> None]
    /\ dst_frame = [w \in Workers |-> None]
    /\ wscore = [w \in Workers |-> None]
    /\ spawned = 0
    /\ mpc = "spawn"
    /\ chan = <<>>
    /\ emitted = <<>>
    /\ results = <<>>
    /\ avg = <<0, 1>>

\* what no step of a scoring round changes
cfgVars == <<ap, threads, cycle, srcLen, dstLen, total_frames, distort_frames, warned,
             searchVars, vsVars, outerVars>>
aggVars == <<results, avg>>
decVars == <<srcPos, dstPos, cursor>>
locVars == <<curr_frame, src_frame, dst_frame, wscore>>

\* for _ in 0..threads { ... std::thread::spawn(...) }
SpawnWorker ==
    /\ mpc = "spawn"
    /\ spawned < threads
    /\ spawned' = spawned + 1
    /\ wpc' = [wpc EXCEPT ![spawned + 1] = "lock"]
    /\ UNCHANGED <<cfgVars, aggVars, decVars, locVars, mtx, mpc, chan, emitted>>

\* drop(result_tx): the loop is over, only the workers hold senders now
DropTx ==
    /\ mpc = "spawn"
    /\ spawned = threads
    /\ mpc' = "collect"
    /\ UNCHANGED <<cfgVars, aggVars, decVars, locVars, mtx, wpc, spawned, chan, emitted>>

\* (mutant) the cursor and the decoders are entered without waiting for the lock
LockNoExclusion(w) ==
    /\ wpc[w] = "lock"
    /\ mtx' = w
    /\ curr_frame' = [curr_frame EXCEPT ![w] = cursor]
    /\ wpc' = [wpc EXCEPT ![w] = "read_src"]
    /\ UNCHANGED <<cfgVars, aggVars, decVars, src_frame, dst_frame, wscore,
                   spawned, mpc, chan, emitted>>

\* let mut guard = mtx.lock().unwrap(); let curr_frame = guard.0;
Lock(w) ==
    /\ wpc[w] = "lock"
    /\ mtx = 0
    /\ mtx' = w
    /\ curr_frame' = [curr_frame EXCEPT ![w] = cursor]
    /\ wpc' = [wpc EXCEPT ![w] = "read_src"]
    /\ UNCHANGED <<cfgVars, aggVars, decVars, src_frame, dst_frame, wscore,
                   spawned, mpc, chan, emitted>>

\* let src_frame = guard.1 .0.read_video_frame::<S>();
ReadSrc(w) ==
    /\ wpc[w] = "read_src"
    /\ src_frame' = [src_frame EXCEPT ![w] = ReadFrame(srcPos, srcLen)]
    /\ srcPos' = AfterRead(srcPos, srcLen)
    /\ wpc' = [wpc EXCEPT ![w] = "read_dst"]
    /\ UNCHANGED <<cfgVars, aggVars, dstPos, cursor, curr_frame, dst_frame, wscore,
                   mtx, spawned, mpc, chan, emitted>>

\* let dst_frame = guard.1 .1.read_video_frame::<D>();
ReadDst(w) ==
    /\ wpc[w] = "read_dst"
    /\ dst_frame' = [dst_frame EXCEPT ![w] = ReadFrame(dstPos, dstLen)]
    /\ dstPos' = AfterRead(dstPos, dstLen)
    /\ wpc' = [wpc EXCEPT ![w] = "advance"]
    /\ UNCHANGED <<cfgVars, aggVars, srcPos, cursor, curr_frame, src_frame, wscore,
                   mtx, spawned, mpc, chan, emitted>>

\* (mutant) the guard lives to the end of calc_score: the lock is kept while
\* the score is computed and released when the function returns
AdvanceHoldingLock(w) ==
    /\ wpc[w] = "advance"
    /\ src_frame[w] # None /\ dst_frame[w] # None
    /\ cursor' = AdvanceCursor(cursor)
    /\ wpc' = [wpc EXCEPT ![w] = "compute"]
    /\ UNCHANGED <<cfgVars, aggVars, locVars, srcPos, dstPos, mtx, spawned, mpc,
                   chan, emitted>>

\* if let (Some(sf), Some(df)) = ... { skip loop; guard.0 += inc; (curr_frame, (sf, df)) }
\* the guard is dropped at the end of the block
Advance(w) ==
    /\ wpc[w] = "advance"
    /\ src_frame[w] # None /\ dst_frame[w] # None
    /\ LET n == SkipIterations(srcPos, dstPos)
       IN  /\ srcPos' = Min(srcLen, srcPos + n)
           /\ dstPos' = Min(dstLen, dstPos + n)
    /\ cursor' = AdvanceCursor(cursor)
    /\ mtx' = 0
    /\ wpc' = [wpc EXCEPT ![w] = "compute"]
    /\ UNCHANGED <<cfgVars, aggVars, locVars, spawned, mpc, chan, emitted>>

\* (mutant) the worker asks for more work after end-of-stream instead of leaving
EndOfStreamRetry(w) ==
    /\ wpc[w] = "advance"
    /\ (src_frame[w] = None \/ dst_frame[w] = None)
    /\ mtx' = 0
    /\ wpc' = [wpc EXCEPT ![w] = "lock"]
    /\ UNCHANGED <<cfgVars, aggVars, decVars, locVars, spawned, mpc, chan, emitted>>

\* else { return None }  and, in the worker's loop, else { break }: the guard is
\* dropped, the thread ends and its clone of result_tx is dropped with it
EndOfStream(w) ==
    /\ wpc[w] = "advance"
    /\ (src_frame[w] = None \/ dst_frame[w] = None)
    /\ mtx' = 0
    /\ wpc' = [wpc EXCEPT ![w] = "exit"]
    /\ UNCHANGED <<cfgVars, aggVars, decVars, locVars, spawned, mpc, chan, emitted>>

\* Yuv::new(..); compute_frame_ssimulacra2(src_yuv, dst_yuv)
Compute(w) ==
    /\ wpc[w] = "compute"
    /\ wscore' = [wscore EXCEPT ![w] = Score(src_frame[w], dst_frame[w])]
    /\ wpc' = [wpc EXCEPT ![w] = "send"]
    /\ UNCHANGED <<cfgVars, aggVars, decVars, curr_frame, src_frame, dst_frame,
                   mtx, spawned, mpc, chan, emitted>>

\* result_tx.send(result).unwrap(), then the next iteration of the loop
Send(w) ==
    /\ wpc[w] = "send"
    /\ chan' = Append(chan, <<curr_frame[w], wscore[w]>>)
    /\ emitted' = Append(emitted, <<curr_frame[w], wscore[w]>>)
    /\ wpc' = [wpc EXCEPT ![w] = "lock"]
    /\ UNCHANGED <<cfgVars, aggVars, decVars, locVars, mtx, spawned, mpc>>

\* every Sender is gone: main's was dropped and every spawned worker has ended
Disconnected ==
    /\ mpc # "spawn"
    /\ \A w \in Workers : wpc[w] \in {"unspawned", "exit"}

\* for score in result_rx { results.insert(..); avg = ..; }
Receive ==
    /\ mpc = "collect"
    /\ chan # <<>>
    /\ LET fs == Head(chan)
           m  == Insert(results, fs)
       IN  /\ results' = m
           /\ avg' = UpdateAvg(avg, fs[2], Cardinality(DOMAIN m))
    /\ chan' = Tail(chan)
    /\ UNCHANGED <<cfgVars, decVars, locVars, mtx, wpc, spawned, mpc, emitted>>

\* the iterator of result_rx ends: progress.finish(); results
Finish ==
    /\ mpc = "collect"
    /\ chan = <<>>
    /\ Disconnected
    /\ mpc' = "done"
    /\ UNCHANGED <<cfgVars, aggVars, decVars, locVars, mtx, wpc, spawned, chan, emitted>>

Worker(w) ==
    \/ Lock(w)
    \/ ReadSrc(w)
    \/ ReadDst(w)
    \/ Advance(w)
    \/ EndOfStream(w)
    \/ Compute(w)
    \/ Send(w)

Next ==
    \/ SpawnWorker
    \/ DropTx
    \/ \E w \in Workers : Worker(w)
    \/ Receive
    \/ Finish

\* ------------------------------------------------- the quantizer search
\* f32 quantizers are kept in fixed point: QUnit units make 1.0
QUnit == 8

Encoders == {"svt-av1", "rav1e"}

\* the modifiers of the four calls of calculate_quantizer, in program order
Modifier == <<2, 1, -1, -2>>
Trials == DOMAIN Modifier
TrialName == <<"lowest", "low", "high", "highest">>

\* --quantizer, --quantizer_calc, --quantizer_range values explored: the svt-av1
\* and rav1e defaults, a custom range with an off-grid bound and a reversed one
BaseQuantizers == {40 * QUnit, 100 * QUnit}
Steps == {(15 * QUnit) \div 2, 30 * QUnit}
Ranges ==
    {<<>>, <<30 * QUnit + 1, 47 * QUnit + 7>>, <<55 * QUnit, 25 * QUnit>>,
     <<0, QUnit \div 2>>}
\* how far the base quantizer of an earlier, interrupted run was from this run's
PrevShifts == {0, 5 * QUnit}
\* content of the clip: the score of its first frame at quantizer 0
Qualities == {50, 100}

\* default of --speed
DefaultSpeed(encoder) == IF encoder = "rav1e" THEN 2 ELSE 4

\* let multi_speed: u8 = if args.encoder == "rav1e" { 10 } else { 8 };
multi_speed(a) == IF a.encoder = "rav1e" THEN 10 ELSE 8

\* fn quantizer_range; an absent --quantizer_range is <<>>
quantizer_range(range, encoder) ==
    IF range = <<>>
    THEN IF encoder = "rav1e"
         THEN <<40 * QUnit, 160 * QUnit>>
         ELSE <<25 * QUnit, 55 * QUnit>>
    ELSE range

\* f32::clamp(self, min, max); it panics unless min <= max
Clamp(x, lo, hi) == IF x < lo THEN lo ELSE IF x > hi THEN hi ELSE x
ClampPanics(a) ==
    LET range == quantizer_range(a.quantizer_range, a.encoder)
    IN  range[1] > range[2]

\* (mutant) the trial quantizer is not clamped
calculate_quantizer_unclamped(a, modifier) ==
    a.quantizer + a.quantizer_calc * modifier

\* fn calculate_quantizer
calculate_quantizer(a, modifier) ==
    LET part1 == a.quantizer + a.quantizer_calc * modifier
        range == quantizer_range(a.quantizer_range, a.encoder)
    IN  Clamp(part1, range[1], range[2])

\* the score get_ssimu2 computes for frame i of the clip against an encode made
\* at quantizer q: opaque, here lower for a higher quantizer, and it can be <= 0
TrialScore(i, q) == clip.quality - (q \div QUnit) - 2 * i

\* the mapping get_ssimu2 returns for a trial output encoded at quantizer q: one
\* entry (i * cycle) -> score per frame pair
ScoreMap(q) ==
    [f \in {i * cycle : i \in 0..(clip.frames - 1)} |-> TrialScore(f \div cycle, q)]

\* the scene descriptions explored (Scene, ScenesInfo)
NewScene(s, e) ==
    [start_frame |-> s, end_frame |-> e, quantizer_scores |-> <<>>,
     final_quantizer |-> None, zone_overrides |-> <<>>]
SceneFiles ==
    {[scenes |-> <<NewScene(0, 5)>>, frames |-> 6],
     [scenes |-> <<NewScene(0, 1), NewScene(2, 5)>>, frames |-> 6],
     [scenes |-> <<NewScene(0, 3), NewScene(0, 5)>>, frames |-> 6]}

Absent == [state |-> "absent", map |-> <<>>]
NoOutput == [exists |-> FALSE, q |-> None]
NoChild == [state |-> "idle", k |-> 0, q |-> None]

\* filesystem left by an earlier run that finished `done` trial rounds and was
\* interrupted in the next one
OutLeft(done, partial, shift) ==
    [k \in Trials |->
        IF k <= done \/ (k = done + 1 /\ partial # "fresh")
        THEN [exists |-> TRUE,
              q |-> calculate_quantizer([args EXCEPT !.quantizer = @ + shift], Modifier[k])]
        ELSE NoOutput]
CacheLeft(done, partial, shift) ==
    [k \in Trials |->
        IF k <= done
        THEN [state |-> "ok",
              map |-> ScoreMap(calculate_quantizer([args EXCEPT !.quantizer = @ + shift],
                                                   Modifier[k]))]
        ELSE IF k = done + 1 /\ partial = "created"
        THEN [state |-> "corrupt", map |-> <<>>]
        ELSE Absent]

\* process_command at line 1355: the scene file is read, no trial has run
SearchStart ==
    /\ args \in {[encoder |-> e, quantizer |-> q, quantizer_calc |-> c,
                  quantizer_range |-> r, speed |-> DefaultSpeed(e)] :
                 e \in Encoders, q \in BaseQuantizers, c \in Steps, r \in Ranges}
    /\ cycle \in 1..MaxCycle
    /\ clip \in [frames : 0..MaxFrames, quality : Qualities]
    /\ scenes_file \in SceneFiles
    /\ scenes_info = scenes_file
    /\ scenes_over = [state |-> "absent", scenes |-> <<>>]
    /\ \E done \in 0..Len(Modifier), partial \in {"fresh", "encoded", "created"},
          shift \in PrevShifts :
          /\ ClampPanics(args) => (done = 0 /\ partial = "fresh")
          /\ (done = 0 /\ partial = "fresh") => shift = 0
          /\ out = OutLeft(done, partial, shift)
          /\ cache = CacheLeft(done, partial, shift)
    /\ quantizers = [k \in Trials |-> None]
    /\ trial = 1
    /\ spc = "calc"
    /\ enc = NoChild
    /\ sresults = <<>>
    /\ solved = <<>>
    /\ trace = <<>>

\* the scoring round is not running
PoolIdle ==
    /\ ap = 1 /\ threads = 0 /\ srcLen = 0 /\ dstLen = 0
    /\ total_frames = None /\ distort_frames = None /\ warned = FALSE
    /\ srcPos = 0 /\ dstPos = 0 /\ cursor = 0 /\ mtx = 0
    /\ wpc = [w \in Workers |-> "unspawned"]
    /\ curr_frame = [w \in Workers |-> None]
    /\ src_frame = [w \in Workers |-> None]
    /\ dst_frame = [w \in Workers |-> None]
    /\ wscore = [w \in Workers |-> None]
    /\ spawned = 0 /\ mpc = "idle" /\ chan = <<>> /\ emitted = <<>>
    /\ results = <<>> /\ avg = <<0, 1>>

\* the search is not running
SearchIdle ==
    /\ args = [encoder |-> "svt-av1", quantizer |-> 40 * QUnit,
               quantizer_calc |-> (15 * QUnit) \div 2, quantizer_range |-> <<>>,
               speed |-> DefaultSpeed("svt-av1")]
    /\ clip = [frames |-> 0, quality |-> 100]
    /\ scenes_file = [scenes |-> <<>>, frames |-> 0]
    /\ scenes_info = scenes_file
    /\ scenes_over = [state |-> "absent", scenes |-> <<>>]
    /\ out = [k \in Trials |-> NoOutput]
    /\ cache = [k \in Trials |-> Absent]
    /\ quantizers = [k \in Trials |-> None]
    /\ trial = 1 /\ spc = "idle" /\ enc = NoChild /\ sresults = <<>>
    /\ solved = <<>> /\ trace = <<>>

\* the state of the two scorers, which no step of the search changes
poolAll == <<ap, threads, cycle, srcLen, dstLen, total_frames, distort_frames,
             warned, srcPos, dstPos, cursor, mtx, wpc, curr_frame, src_frame,
             dst_frame, wscore, spawned, mpc, chan, emitted, results, avg, vsVars,
             outerVars>>
inputVars == <<args, clip, scenes_file>>

Event(ev, k, q) == [ev |-> ev, k |-> k, q |-> q]

\* let <trial>_quantizer = calculate_quantizer(&args, modifier);
CalcQuantizer ==
    /\ spc = "calc"
    /\ IF ClampPanics(args)
       THEN /\ spc' = "panic"
            /\ UNCHANGED quantizers
       ELSE /\ quantizers' = [quantizers EXCEPT
                                 ![trial] = calculate_quantizer(args, Modifier[trial])]
            /\ spc' = "exists"
    /\ UNCHANGED <<poolAll, inputVars, solved, scenes_over, scenes_info, out, cache, trial,
                   enc, sresults, trace>>

\* (mutant) the child is spawned and not waited for
StartEncodeNoWait ==
    /\ spc = "exists"
    /\ ~out[trial].exists
    /\ enc' = [state |-> "running", k |-> trial, q |-> quantizers[trial]]
    /\ spc' = "score"
    /\ trace' = Append(trace, Event("encode", trial, quantizers[trial]))
    /\ UNCHANGED <<poolAll, inputVars, solved, scenes_over, scenes_info, out, cache,
                   quantizers, trial, sresults>>

\* if <trial>.try_exists().is_ok_and(|b| b == false) { encode_file(..) }:
\* Command::new("av1an").args(..).spawn().unwrap() ...
StartEncode ==
    /\ spc = "exists"
    /\ ~out[trial].exists
    /\ enc' = [state |-> "running", k |-> trial, q |-> quantizers[trial]]
    /\ spc' = "wait"
    /\ trace' = Append(trace, Event("encode", trial, quantizers[trial]))
    /\ UNCHANGED <<poolAll, inputVars, solved, scenes_over, scenes_info, out, cache,
                   quantizers, trial, sresults>>

\* the trial output exists: encode_file is not called
SkipEncode ==
    /\ spc = "exists"
    /\ out[trial].exists
    /\ spc' = "score"
    /\ UNCHANGED <<poolAll, inputVars, solved, scenes_over, scenes_info, out, cache,
                   quantizers, trial, enc, sresults, trace>>

\* av1an exits, having written the output it was asked for or having failed
EncoderExit ==
    /\ enc.state = "running"
    /\ enc' = [enc EXCEPT !.state = "exited"]
    /\ \E ok \in BOOLEAN :
          out' = IF ok
                 THEN [out EXCEPT ![enc.k] = [exists |-> TRUE, q |-> enc.q]]
                 ELSE out
    /\ UNCHANGED <<poolAll, inputVars, solved, scenes_over, scenes_info, cache, quantizers,
                   trial, spc, sresults, trace>>

\* ... .wait().unwrap(): the exit status is not looked at
WaitReturns ==
    /\ spc = "wait"
    /\ enc.state = "exited"
    /\ enc' = NoChild
    /\ spc' = "score"
    /\ UNCHANGED <<poolAll, inputVars, solved, scenes_over, scenes_info, out, cache,
                   quantizers, trial, sresults, trace>>

\* (mutant) the scorer runs whether or not the score cache exists
RunScorerAlways ==
    /\ spc = "score"
    /\ trace' = Append(trace, Event("scorer", trial, quantizers[trial]))
    /\ IF ~out[trial].exists
       THEN /\ spc' = "panic"
            /\ UNCHANGED sresults
       ELSE /\ sresults' = ScoreMap(out[trial].q)
            /\ spc' = "create"
    /\ UNCHANGED <<poolAll, inputVars, solved, scenes_over, scenes_info, out, cache,
                   quantizers, trial, enc>>

\* get_ssimulacra2, no cache file: let hi = get_ssimu2(src, distorted, ..);
\* opening a distorted file that does not exist panics (unwrap)
RunScorer ==
    /\ spc = "score"
    /\ cache[trial].state = "absent"
    /\ trace' = Append(trace, Event("scorer", trial, quantizers[trial]))
    /\ IF ~out[trial].exists
       THEN /\ spc' = "panic"
            /\ UNCHANGED sresults
       ELSE /\ sresults' = ScoreMap(out[trial].q)
            /\ spc' = "create"
    /\ UNCHANGED <<poolAll, inputVars, solved, scenes_over, scenes_info, out, cache,
                   quantizers, trial, enc>>

\* let file = File::create(cache).unwrap(): the file exists and is empty
CreateCache ==
    /\ spc = "create"
    /\ cache' = [cache EXCEPT ![trial] = [state |-> "corrupt", map |-> <<>>]]
    /\ spc' = "write"
    /\ UNCHANGED <<poolAll, inputVars, solved, scenes_over, scenes_info, out, quantizers,
                   trial, enc, sresults, trace>>

\* serde_json::to_writer(file, &hi)
WriteCache ==
    /\ spc = "write"
    /\ cache' = [cache EXCEPT ![trial] = [state |-> "ok", map |-> sresults]]
    /\ spc' = "stats"
    /\ UNCHANGED <<poolAll, inputVars, solved, scenes_over, scenes_info, out, quantizers,
                   trial, enc, sresults, trace>>

\* (mutant) a cache that does not parse is scored again
LoadCacheRecompute ==
    /\ spc = "score"
    /\ cache[trial].state # "absent"
    /\ IF cache[trial].state = "corrupt"
       THEN /\ sresults' = ScoreMap(out[trial].q)
            /\ trace' = Append(trace, Event("scorer", trial, quantizers[trial]))
            /\ spc' = "create"
       ELSE /\ sresults' = cache[trial].map
            /\ trace' = Append(trace, Event("cache_read", trial, quantizers[trial]))
            /\ spc' = "stats"
    /\ UNCHANGED <<poolAll, inputVars, solved, scenes_over, scenes_info, out, cache,
                   quantizers, trial, enc>>

\* get_ssimulacra2, the cache file exists: it is read and parsed (unwrap)
LoadCache ==
    /\ spc = "score"
    /\ cache[trial].state # "absent"
    /\ IF cache[trial].state = "corrupt"
       THEN /\ spc' = "panic"
            /\ UNCHANGED <<sresults, trace>>
       ELSE /\ sresults' = cache[trial].map
            /\ trace' = Append(trace, Event("cache_read", trial, quantizers[trial]))
            /\ spc' = "stats"
    /\ UNCHANGED <<poolAll, inputVars, solved, scenes_over, scenes_info, out, cache,
                   quantizers, trial, enc>>

\* (mutant) scores <= 0 are not filtered out
SceneScoresUnfiltered(map, scene) ==
    {f \in DOMAIN map : scene.start_frame <= f /\ f <= scene.end_frame}

\* filtered, then scene_scores: the frames of `map` whose score is > 0 and whose
\* index lies in the scene
SceneScores(map, scene) ==
    {f \in DOMAIN map :
        map[f] > 0 /\ scene.start_frame <= f /\ f <= scene.end_frame}

RECURSIVE SumOver(_, _)
SumOver(map, F) ==
    IF F = {} THEN 0
    ELSE LET f == CHOOSE g \in F : TRUE
         IN  map[f] + SumOver(map, F \ {f})

\* the scores of F in ascending order (Data::new sorts for the order statistics)
RECURSIVE SortedScores(_, _)
SortedScores(map, F) ==
    IF F = {} THEN <<>>
    ELSE LET f == CHOOSE g \in F : \A h \in F : map[g] <= map[h]
         IN  <<map[f]>> \o SortedScores(map, F \ {f})

\* QuantizerScores of a non-empty set of frames: mean and median as fractions;
\* std_dev, percentile_5th and percentile_95th are functions of `samples`
QuantizerScores(map, F) ==
    LET n == Cardinality(F)
        s == SortedScores(map, F)
    IN  [mean    |-> Norm(SumOver(map, F), n),
         median  |-> IF n % 2 = 1 THEN Norm(s[(n + 1) \div 2], 1)
                     ELSE Norm(s[n \div 2] + s[n \div 2 + 1], 2),
         samples |-> s]

\* quantizer as usize: truncation, saturating at 0
AsUsize(q) == IF q < 0 THEN 0 ELSE q \div QUnit

\* HashMap::insert
MapInsert(m, key, v) ==
    [k \in (DOMAIN m) \cup {key} |-> IF k = key THEN v ELSE m[k]]

\* the loop of get_ssimulacra2 over scenes_info.scenes
WithStats(si, map, q) ==
    [si EXCEPT !.scenes =
        [i \in DOMAIN si.scenes |->
            LET scene == si.scenes[i]
                F == SceneScores(map, scene)
            IN  IF F = {} THEN scene
                ELSE [scene EXCEPT !.quantizer_scores =
                         MapInsert(@, AsUsize(q), QuantizerScores(map, F))]]]

\* the rest of get_ssimulacra2, and the end of the trial round
SceneStats ==
    /\ spc = "stats"
    /\ scenes_info' = WithStats(scenes_info, sresults, quantizers[trial])
    /\ trace' = Append(trace, Event("stats", trial, quantizers[trial]))
    /\ IF trial < Len(Modifier)
       THEN /\ trial' = trial + 1
            /\ spc' = "calc"
       ELSE /\ spc' = "zones"
            /\ UNCHANGED trial
    /\ UNCHANGED <<poolAll, inputVars, solved, scenes_over, out, cache, quantizers, enc,
                   sresults>>

\* (q as i8) as f32: truncation toward zero, saturating at the bounds of i8
AsI8(q) ==
    LET t == IF q < 0 THEN -((-q) \div QUnit) ELSE q \div QUnit
    IN  Clamp(t, -128, 127) * QUnit

\* (q * 4.).round() / 4.: f32::round rounds half away from zero
RoundQuarter(q) ==
    LET r == IF q < 0 THEN -((-q * 8 + QUnit) \div (2 * QUnit))
             ELSE (q * 8 + QUnit) \div (2 * QUnit)
    IN  r * (QUnit \div 4)

\* scene.final_quantizer = Some(..)
FinalQuantizer(encoder, q) ==
    IF encoder = "rav1e" THEN AsI8(q) ELSE RoundQuarter(q)

\* mean_corr.iter().all(|f| *f == 0.): polyfit solves the least-squares cubic
\* (by SVD, the solution of least norm) that gives the keys of quantizer_scores
\* as a function of the compensated means; the keys are >= 0 and the constant
\* term has the column of ones, so the coefficients are all zero exactly when
\* every key is 0
AllZero(scene) == \A k \in DOMAIN scene.quantizer_scores : k = 0

\* (polynomial.eval(target_quality) as f32).clamp(q_range[0], q_range[1]): the
\* polynomial's value is any real; the clamped value is sampled at both bounds
\* and at an interior off-grid point
FitValues(range) ==
    {range[1], range[2], Clamp((range[1] + range[2]) \div 2 + 1, range[1], range[2])}

\* let q = if !mean_corr.iter().all(..) { .. } else { q_range[1] };
SolvedValues(scene, range) ==
    IF AllZero(scene) THEN {range[2]} ELSE FitValues(range)

\* Some(ZoneOverrides { .. }); video_params holds the solved quantizer and the
\* caller's speed
ZoneRecord(a, q) ==
    [encoder |-> IF a.encoder = "rav1e" THEN "rav1e" ELSE "svt_av1",
     passes |-> 1,
     video_params |-> [quantizer |-> q, speed |-> a.speed],
     photon_noise |-> None,
     extra_split_sec |-> 10,
     min_scene_len |-> 24]

\* for scene_o in &mut scenes_o.scenes: skip while both boundaries differ, set
\* zone_overrides on the first scene that is not skipped, break
AttachOne(so, scene, a) ==
    LET hits == {j \in DOMAIN so :
                    ~(so[j].start_frame # scene.start_frame
                      /\ so[j].end_frame # scene.end_frame)}
    IN  IF hits = {} THEN so
        ELSE LET j == CHOOSE h \in hits : \A g \in hits : h <= g
             IN  [so EXCEPT ![j].zone_overrides = ZoneRecord(a, scene.final_quantizer)]

RECURSIVE AttachAll(_, _, _, _)
AttachAll(so, scenes, i, a) ==
    IF i > Len(scenes) THEN so
    ELSE AttachAll(AttachOne(so, scenes[i], a), scenes, i + 1, a)

\* (mutant) the scenes with their overrides are written back to the scene file
ZoneOverridesInPlace ==
    /\ spc = "zones"
    /\ IF \E i \in DOMAIN scenes_info.scenes :
             DOMAIN scenes_info.scenes[i].quantizer_scores = {}
       THEN /\ spc' = "panic"
            /\ UNCHANGED <<scenes_info, scenes_file, scenes_over, solved, trace>>
       ELSE /\ \E qs \in [DOMAIN scenes_info.scenes ->
                            FitValues(quantizer_range(args.quantizer_range, args.encoder))] :
                 /\ \A i \in DOMAIN qs :
                       qs[i] \in SolvedValues(scenes_info.scenes[i],
                                 quantizer_range(args.quantizer_range, args.encoder))
                 /\ solved' = qs
            /\ scenes_info' = [scenes_info EXCEPT !.scenes =
                  [i \in DOMAIN scenes_info.scenes |->
                      [scenes_info.scenes[i] EXCEPT
                          !.final_quantizer = FinalQuantizer(args.encoder, solved'[i])]]]
            /\ scenes_file' =
                  [scenes |-> AttachAll(scenes_file.scenes, scenes_info'.scenes, 1, args),
                   frames |-> scenes_file.frames]
            /\ scenes_over' = [state |-> "ok", scenes |-> scenes_file'.scenes,
                               frames |-> scenes_file.frames]
            /\ trace' = Append(trace, Event("fit", 0, None))
            /\ spc' = "done"
    /\ UNCHANGED <<poolAll, args, clip, out, cache, quantizers, trial, enc, sresults>>

\* fn zone_overrides: quantizer_scores.as_ref().unwrap() panics on a scene that
\* has no scores; otherwise every scene gets its final_quantizer and the
\* pristine scene file, with the overrides attached, is written to scenes_over
ZoneOverrides ==
    /\ spc = "zones"
    /\ IF \E i \in DOMAIN scenes_info.scenes :
             DOMAIN scenes_info.scenes[i].quantizer_scores = {}
       THEN /\ spc' = "panic"
            /\ UNCHANGED <<scenes_info, scenes_over, solved, trace>>
       ELSE /\ \E qs \in [DOMAIN scenes_info.scenes ->
                            FitValues(quantizer_range(args.quantizer_range, args.encoder))] :
                 /\ \A i \in DOMAIN qs :
                       qs[i] \in SolvedValues(scenes_info.scenes[i],
                                 quantizer_range(args.quantizer_range, args.encoder))
                 /\ solved' = qs
            /\ scenes_info' = [scenes_info EXCEPT !.scenes =
                  [i \in DOMAIN scenes_info.scenes |->
                      [scenes_info.scenes[i] EXCEPT
                          !.final_quantizer = FinalQuantizer(args.encoder, solved'[i])]]]
            /\ scenes_over' =
                  [state |-> "ok",
                   scenes |-> AttachAll(scenes_file.scenes, scenes_info'.scenes, 1, args),
                   frames |-> scenes_file.frames]
            /\ trace' = Append(trace, Event("fit", 0, None))
            /\ spc' = "done"
    /\ UNCHANGED <<poolAll, inputVars, out, cache, quantizers, trial, enc, sresults>>

SearchNext ==
    \/ CalcQuantizer
    \/ StartEncode
    \/ SkipEncode
    \/ EncoderExit
    \/ WaitReturns
    \/ RunScorer
    \/ CreateCache
    \/ WriteCache
    \/ LoadCache
    \/ SceneStats
    \/ ZoneOverrides

\* ---------------------------------------------------------- get_vs_ssimu2
\* largest value of a u8
U8Max == 255

NoCallback == [n |-> None, pc |-> "none", reg |-> None]
NoResult == [state |-> "none", map |-> <<>>]

\* what the user types at the prompt; "" is end of input
Answers == {"yes\n", "no\n", "yes", ""}

\* get_vs_ssimu2 at line 349: the nodes are built, nothing is requested yet
VsInit ==
    /\ vthreads \in 1..MaxAP
    /\ frames \in 0..MaxVsFrames
    /\ vcycle \in 0..MaxCycle
    /\ checks \in BOOLEAN
    /\ index = 0
    /\ jobs = 0
    /\ reg = None
    /\ inflight = {}
    /\ cb = NoCallback
    /\ vresults = <<>>
    /\ vavg = <<0, 1>>
    /\ vpc = "for"
    /\ input = ""
    /\ proc = "running"
    /\ vret = NoResult

\* get_vs_ssimu2 is not running
VsIdle ==
    /\ vthreads = 1 /\ frames = 0 /\ vcycle = 1 /\ checks = FALSE
    /\ index = 0 /\ jobs = 0 /\ reg = None /\ inflight = {} /\ cb = NoCallback
    /\ vresults = <<>> /\ vavg = <<0, 1>> /\ vpc = "idle" /\ input = "" /\ proc = "running"
    /\ vret = NoResult

\* what no step of get_vs_ssimu2 changes
vsCfg == <<poolVars, searchVars, outerVars, vthreads, frames, vcycle, checks>>

\* for index in 0..frames { loop { if (jobs as usize) < threads { break; } sleep } ..
ForLoop ==
    /\ proc = "running"
    /\ vpc = "for"
    /\ index < frames
    /\ jobs < vthreads
    /\ vpc' = "inc"
    /\ UNCHANGED <<vsCfg, input, index, jobs, reg, inflight, cb, vresults, vavg, proc, vret>>

\* the range 0..frames is exhausted
ForEnd ==
    /\ proc = "running"
    /\ vpc = "for"
    /\ index = frames
    /\ vpc' = "check_len"
    /\ UNCHANGED <<vsCfg, input, index, jobs, reg, inflight, cb, vresults, vavg, proc, vret>>

\* jobs += 1, the read: jobs is a plain u8 that the callbacks write as well
IncLoad ==
    /\ proc = "running"
    /\ vpc = "inc"
    /\ reg' = jobs
    /\ vpc' = "inc_store"
    /\ UNCHANGED <<vsCfg, input, index, jobs, inflight, cb, vresults, vavg, proc, vret>>

\* jobs += 1, the write: above 255 it panics or wraps, as the build has it
IncStore ==
    /\ proc = "running"
    /\ vpc = "inc_store"
    /\ IF reg + 1 > U8Max /\ checks
       THEN /\ proc' = "aborted"
            /\ UNCHANGED <<jobs, vpc>>
       ELSE /\ jobs' = (reg + 1) % (U8Max + 1)
            /\ vpc' = "request"
            /\ UNCHANGED proc
    /\ reg' = None
    /\ UNCHANGED <<vsCfg, input, index, inflight, cb, vresults, vavg, vret>>

\* scored_node.get_frame_async(index, |frame, n, _| { .. }); and the next index
Request ==
    /\ proc = "running"
    /\ vpc = "request"
    /\ inflight' = inflight \cup {index}
    /\ index' = index + 1
    /\ vpc' = "for"
    /\ UNCHANGED <<vsCfg, input, jobs, reg, cb, vresults, vavg, proc, vret>>

\* results.insert(n * cycle as usize, score)
VsInsert(map, n, score) ==
    LET key == n * vcycle
    IN  [k \in (DOMAIN map) \cup {key} |-> IF k = key THEN score ELSE map[k]]

\* VapourSynth calls the callback of a requested frame, one callback at a time:
\* frame.expect(..) panics on a frame that could not be generated, else the
\* score is inserted and the average updated
CallbackStart(n) ==
    /\ proc = "running"
    /\ vpc # "done"
    /\ cb = NoCallback
    /\ n \in inflight
    /\ inflight' = inflight \ {n}
    /\ \E ok \in BOOLEAN :
          IF ok
          THEN /\ vresults' = VsInsert(vresults, n, Score(n, n))
               /\ vavg' = UpdateAvg(vavg, Score(n, n), Cardinality(DOMAIN vresults'))
               /\ cb' = [n |-> n, pc |-> "load", reg |-> None]
               /\ UNCHANGED proc
          ELSE /\ proc' = "aborted"
               /\ UNCHANGED <<vresults, vavg, cb>>
    /\ UNCHANGED <<vsCfg, input, index, jobs, reg, vpc, vret>>

\* jobs -= 1, the read
CallbackLoad ==
    /\ proc = "running"
    /\ cb.pc = "load"
    /\ cb' = [cb EXCEPT !.pc = "store", !.reg = jobs]
    /\ UNCHANGED <<vsCfg, input, index, jobs, reg, inflight, vresults, vavg, vpc, proc, vret>>

\* jobs -= 1, the write: below 0 it panics or wraps, as the build has it
CallbackStore ==
    /\ proc = "running"
    /\ cb.pc = "store"
    /\ IF cb.reg = 0 /\ checks
       THEN /\ proc' = "aborted"
            /\ UNCHANGED <<jobs, cb>>
       ELSE /\ jobs' = (cb.reg - 1) % (U8Max + 1)
            /\ cb' = NoCallback
            /\ UNCHANGED proc
    /\ UNCHANGED <<vsCfg, input, index, reg, inflight, vresults, vavg, vpc, vret>>

\* loop { if results.len() >= frames { progress.finish(); break; } ..
\* then progress.finish(); results
CheckLen ==
    /\ proc = "running"
    /\ vpc = "check_len"
    /\ IF Cardinality(DOMAIN vresults) >= frames
       THEN /\ vpc' = "done"
            /\ vret' = [state |-> "map", map |-> vresults]
       ELSE /\ vpc' = "check_jobs"
            /\ UNCHANGED vret
    /\ UNCHANGED <<vsCfg, input, index, jobs, reg, inflight, cb, vresults, vavg, proc>>

\* if jobs == 0 { eprintln!(..); println!("PAUSED: ..") .. } else sleep
CheckJobs ==
    /\ proc = "running"
    /\ vpc = "check_jobs"
    /\ vpc' = IF jobs = 0 THEN "prompt" ELSE "check_len"
    /\ UNCHANGED <<vsCfg, input, index, jobs, reg, inflight, cb, vresults, vavg, proc, vret>>

\* (mutant) any answer continues
StallDecisionLenient ==
    /\ proc = "running"
    /\ vpc = "prompt"
    /\ input' \in Answers
    /\ vpc' = "done"
    /\ vret' = [state |-> "map", map |-> vresults]
    /\ UNCHANGED proc
    /\ UNCHANGED <<vsCfg, index, jobs, reg, inflight, cb, vresults, vavg>>

\* read_line(&mut input); if input != "yes\n" { exit(0); } println!("Continuing.");
\* break; then progress.finish(); results
StallDecision ==
    /\ proc = "running"
    /\ vpc = "prompt"
    /\ input' \in Answers
    /\ IF input' # "yes\n"
       THEN /\ proc' = "exited"
            /\ UNCHANGED <<vpc, vret>>
       ELSE /\ vpc' = "done"
            /\ vret' = [state |-> "map", map |-> vresults]
            /\ UNCHANGED proc
    /\ UNCHANGED <<vsCfg, index, jobs, reg, inflight, cb, vresults, vavg>>

VsNext ==
    \/ ForLoop
    \/ ForEnd
    \/ IncLoad
    \/ IncStore
    \/ Request
    \/ \E n \in 0..(MaxFrames - 1) : CallbackStart(n)
    \/ CallbackLoad
    \/ CallbackStore
    \/ CheckLen
    \/ CheckJobs
    \/ StallDecision

\* ------------------------------------------- the colour configuration
\* frame sizes of the reference clip
Widths == {720, 1279, 1280}
Heights == {360, 480, 488, 576, 577, 1080}

\* Option::None of an Option<String>
NoTag == "None"

\* what ffprobe reports for a video stream (NoTag: the field is left out)
RangeTags == {NoTag, "tv", "pc"}
SpaceTags == {NoTag, "bt709", "bt470bg", "smpte170m", "bt2020nc", "reserved"}
TransferTags == {NoTag, "bt709", "smpte170m", "smpte2084"}
PrimariesTags == {NoTag, "bt709", "bt470bg", "smpte170m", "bt2020", "reserved"}

\* Option::unwrap_or
UnwrapOr(o, d) == IF o = NoTag THEN d ELSE o

\* phf::Map::get
Get(map, key) == IF key \in DOMAIN map THEN map[key] ELSE NoTag

rav1e_range ==
    [tv |-> "limited", mpeg |-> "limited", limited |-> "limited",
     pc |-> "full", jpeg |-> "full", full |-> "full"]
svt_range ==
    [tv |-> "0", mpeg |-> "0", Limited |-> "0", pc |-> "1", jpeg |-> "1", Full |-> "1"]
svt_matrix ==
    [identity |-> "0", bt709 |-> "1", fcc |-> "4", bt470bg |-> "5", bt601 |-> "6",
     smpte240 |-> "7", ycgco |-> "8", bt2020ncl |-> "9", bt2020cl |-> "10",
     smpte2085 |-> "11", chromatncl |-> "12", chromatcl |-> "13", ictcp |-> "14"]
svt_transfer ==
    [bt709 |-> "1", bt470m |-> "4", bt470bg |-> "5", bt601 |-> "6", smpte240 |-> "7",
     linear |-> "8", log100 |-> "9", log100sqrt10 |-> "10", iec61966 |-> "11",
     bt1361 |-> "12", SRGB |-> "13", bt2020_10bit |-> "14", bt2020_12bit |-> "15",
     smpte2084 |-> "16", smpte428 |-> "17", hlg |-> "18"]
svt_primaries ==
    [bt709 |-> "1", bt470m |-> "4", bt470bg |-> "5", bt601 |-> "6", smpte240 |-> "7",
     genericfilm |-> "8", bt2020 |-> "9", xyz |-> "10", smpte431 |-> "11",
     smpte432 |-> "12", ebu3213 |-> "22"]

\* fn color_data(&self, rav1e: bool): the four strings, with NoTag where the
\* code unwraps a key that its table does not have
color_data(st, rav1e) ==
    LET range     == UnwrapOr(st.color_range, "tv")
        matrix    == UnwrapOr(st.color_space, "bt709")
        transfer  == UnwrapOr(st.color_transfer, "bt709")
        primaries == UnwrapOr(st.color_primaries, "bt709")
    IN  IF rav1e
        THEN <<Get(rav1e_range, range), matrix, transfer, primaries>>
        ELSE <<Get(svt_range, range), Get(svt_matrix, matrix),
               Get(svt_transfer, transfer), Get(svt_primaries, primaries)>>

\* fn to_matrices
to_matrices(tag) ==
    CASE tag = "rgb" -> "Identity"
      [] tag = "bt709" -> "BT709"
      [] tag = "fcc" -> "BT470M"
      [] tag = "bt470bg" -> "BT470BG"
      [] tag = "smpte170m" -> "ST170M"
      [] tag = "smpte240m" -> "ST240M"
      [] tag \in {"ycgco", "ycocg", "ycgco-re", "ycgco-ro"} -> "YCgCo"
      [] tag \in {"bt2020nc", "bt2020ncl"} -> "BT2020NonConstantLuminance"
      [] tag \in {"bt2020c", "bt2020_cl"} -> "BT2020ConstantLuminance"
      [] tag = "smpte2085" -> "ST2085"
      [] tag = "chroma-derived-nc" -> "ChromaticityDerivedNonConstantLuminance"
      [] tag = "chroma-derived-c" -> "ChromaticityDerivedConstantLuminance"
      [] tag = "ictcp" -> "ICtCp"
      [] OTHER -> "Unspecified"

\* fn to_transfers
to_transfers(tag) ==
    CASE tag = "bt709" -> "BT1886"
      [] tag = "gamma22" -> "BT470M"
      [] tag = "gamma28" -> "BT470BG"
      [] tag = "smpte170m" -> "ST170M"
      [] tag = "smpte240m" -> "ST240M"
      [] tag = "linear" -> "Linear"
      [] tag \in {"log100", "log"} -> "Logarithmic100"
      [] tag \in {"log316", "log_sqrt"} -> "Logarithmic316"
      [] tag \in {"iec61966-2-4", "iec61966_2_4"} -> "XVYCC"
      [] tag \in {"bt1361e", "bt1361"} -> "BT1361E"
      [] tag \in {"iec61966-2-1", "iec61966_2_1"} -> "SRGB"
      [] tag \in {"bt2020-10", "bt2020_10bit"} -> "BT2020Ten"
      [] tag \in {"bt2020-12", "bt2020_12bit"} -> "BT2020Twelve"
      [] tag = "smpte2084" -> "PerceptualQuantizer"
      [] tag \in {"smpte428", "smpte428_1"} -> "ST428"
      [] tag = "arib-std-b67" -> "HybridLogGamma"
      [] OTHER -> "Unspecified"

\* fn to_primaries
to_primaries(tag) ==
    CASE tag = "bt709" -> "BT709"
      [] tag = "bt470m" -> "BT470M"
      [] tag = "bt470bg" -> "BT470BG"
      [] tag = "smpte170m" -> "ST170M"
      [] tag = "smpte240m" -> "ST240M"
      [] tag = "film" -> "Film"
      [] tag = "bt2020" -> "BT2020"
      [] tag \in {"smpte428", "smpte428_1"} -> "ST428"
      [] tag = "smpte431" -> "P3DCI"
      [] tag = "smpte432" -> "P3Display"
      [] tag = "ebu3213" -> "Tech3213"
      [] OTHER -> "Unspecified"

\* impl FromSize for Matrices
MatricesFromSize(width, height) ==
    IF width >= 1280 \/ height > 576 THEN "BT709"
    ELSE IF height = 576 THEN "BT470BG"
    ELSE "ST170M"

\* (mutant) the primaries are guessed from the size alone, as the matrix is
PrimariesFromSizeOnly(width, height, matrix) ==
    IF width >= 1280 \/ height > 576 THEN "BT709"
    ELSE IF height = 576 THEN "BT470BG"
    ELSE "ST170M"

\* impl FromSize for Primaries
PrimariesFromSize(width, height, matrix) ==
    IF matrix \in {"BT2020NonConstantLuminance", "BT2020ConstantLuminance"}
    THEN "BT2020"
    ELSE IF matrix = "BT709" \/ width >= 1280 \/ height > 576 THEN "BT709"
    ELSE IF height = 576 THEN "BT470BG"
    ELSE IF height = 480 \/ height = 488 THEN "ST170M"
    ELSE "BT709"

\* get_ssimu2: range, matrices, transfers, _primaries and the YuvConfig
YuvConfig(cd, info) ==
    LET matrices == IF to_matrices(cd[2]) # "Unspecified" THEN to_matrices(cd[2])
                    ELSE MatricesFromSize(info.width, info.height)
    IN  [full_range |-> cd[1] \in {"pc", "jpeg", "full"},
         matrix_coefficients |-> matrices,
         transfer_characteristics |-> to_transfers(cd[3]),
         color_primaries |->
             IF to_primaries(cd[4]) # "Unspecified" THEN to_primaries(cd[4])
             ELSE PrimariesFromSize(info.width, info.height, matrices)]

NoColourData == <<NoTag, NoTag, NoTag, NoTag>>
NoYuv == [full_range |-> FALSE, matrix_coefficients |-> "none",
          transfer_characteristics |-> "none", color_primaries |-> "none"]

\* no source file is being probed
ColourIdle ==
    /\ stream = [color_range |-> NoTag, color_space |-> NoTag,
                 color_transfer |-> NoTag, color_primaries |-> NoTag]
    /\ src_info = [width |-> 0, height |-> 0]
    /\ cdata = NoColourData
    /\ yuv = NoYuv
    /\ cpc = "idle"


\* process_command at line 1297, for one source file and one encoder
ColourInit ==
    /\ stream \in [color_range : RangeTags, color_space : SpaceTags,
                   color_transfer : TransferTags, color_primaries : PrimariesTags]
    /\ src_info \in [width : Widths, height : Heights]
    /\ cdata = NoColourData
    /\ yuv = NoYuv
    /\ cpc = "color_data"

nonColour == <<poolVars, searchVars, vsVars, flowVars>>

\* let (cr, matrix, transfer, primaries) = vinfo[0].color_data(args.encoder == "rav1e");
ColorData ==
    /\ cpc = "color_data"
    /\ cdata' = color_data(stream, args.encoder = "rav1e")
    /\ cpc' = IF \E i \in 1..4 : cdata'[i] = NoTag THEN "panic" ELSE "get_ssimu2"
    /\ UNCHANGED <<nonColour, stream, src_info, yuv>>

\* get_ssimu2 up to `let src_config = YuvConfig { .. }`
Resolve ==
    /\ cpc = "get_ssimu2"
    /\ yuv' = YuvConfig(cdata, src_info)
    /\ cpc' = "done"
    /\ UNCHANGED <<nonColour, stream, src_info, cdata>>

ColourNext ==
    \/ ColorData
    \/ Resolve

\* ---------------------------------- process_command, lines 1342 to 1394
FileStates == {"absent", "old"}

\* no source file is being processed
FlowIdle ==
    /\ flags = [single_pass |-> FALSE, parameters |-> FALSE]
    /\ files = [encode |-> "absent", scenes |-> "absent", scenes_skip |-> "absent",
                scenes_over |-> "absent", trials |-> {}, caches |-> {}]
    /\ ppc = "idle"
    /\ ops = <<>>

OuterIdle == ColourIdle /\ FlowIdle

\* process_command at line 1342; an earlier run may have left any of the files,
\* and the outputs and caches of its first `done` trial rounds
FlowInit ==
    /\ flags \in [single_pass : BOOLEAN, parameters : BOOLEAN]
    /\ \E done \in 0..Len(Modifier) :
          files \in [encode : FileStates, scenes : FileStates,
                     scenes_skip : FileStates, scenes_over : FileStates,
                     trials : {1..done}, caches : {1..done}]
    /\ ppc = "encode_exists"
    /\ ops = <<>>

nonFlow == <<poolVars, searchVars, vsVars, colourVars>>

Op(op, k, with) == [op |-> op, k |-> k, with |-> with]

\* what a child process leaves at the path it was asked to write: the exit
\* status is not looked at
Written == {"absent", "new"}

\* if encode.try_exists().is_ok_and(|b| b == false) { .. }
CheckEncode ==
    /\ ppc = "encode_exists"
    /\ ppc' = IF files.encode = "absent" THEN "scenes_exists" ELSE "done"
    /\ UNCHANGED <<nonFlow, flags, files, ops>>

\* if scenes.try_exists().is_ok_and(|b| b == false) { scene_detection(..) }
SceneDetection ==
    /\ ppc = "scenes_exists"
    /\ IF files.scenes = "absent"
       THEN /\ \E w \in Written : files' = [files EXCEPT !.scenes = w]
            /\ ops' = Append(ops, Op("scene_detection", 0, "none"))
       ELSE UNCHANGED <<files, ops>>
    /\ ppc' = "mode"
    /\ UNCHANGED <<nonFlow, flags>>

\* (mutant) the search runs whether or not the override file exists
CheckOverrideAlways ==
    /\ ppc = "mode"
    /\ ppc' = IF ~flags.single_pass /\ ~flags.parameters THEN "read_scenes" ELSE "final"
    /\ UNCHANGED <<nonFlow, flags, files, ops>>

\* if !args.single_pass && args.parameters.is_none() {
\*     if scenes_over.try_exists().is_ok_and(|b| b == false) { .. } .. }
CheckOverride ==
    /\ ppc = "mode"
    /\ ppc' = IF ~flags.single_pass /\ ~flags.parameters /\ files.scenes_over = "absent"
              THEN "read_scenes"
              ELSE "final"
    /\ UNCHANGED <<nonFlow, flags, files, ops>>

\* File::open(&scenes).unwrap(); serde_json::from_reader(..).unwrap()
ReadScenes ==
    /\ ppc = "read_scenes"
    /\ ppc' = IF files.scenes = "absent" THEN "panic" ELSE "skip_exists"
    /\ UNCHANGED <<nonFlow, flags, files, ops>>

\* if scenes_skip.try_exists().is_ok_and(|b| b == false) { scene_detection(&skip_frames, ..) }
SkipDetection ==
    /\ ppc = "skip_exists"
    /\ IF files.scenes_skip = "absent"
       THEN /\ \E w \in Written : files' = [files EXCEPT !.scenes_skip = w]
            /\ ops' = Append(ops, Op("skip_detection", 0, "none"))
       ELSE UNCHANGED <<files, ops>>
    /\ ppc' = "trial_1"
    /\ UNCHANGED <<nonFlow, flags>>

TrialPc(k) == IF k = 1 THEN "trial_1" ELSE IF k = 2 THEN "trial_2"
              ELSE IF k = 3 THEN "trial_3" ELSE "trial_4"
ScorePc(k) == IF k = 1 THEN "score_1" ELSE IF k = 2 THEN "score_2"
              ELSE IF k = 3 THEN "score_3" ELSE "score_4"

\* if <trial>.try_exists().is_ok_and(|b| b == false) { encode_file(&skip_frames, ..) }
TrialEncode(k) ==
    /\ ppc = TrialPc(k)
    /\ IF k \notin files.trials
       THEN /\ \E ok \in BOOLEAN :
                 files' = [files EXCEPT !.trials = IF ok THEN @ \cup {k} ELSE @]
            /\ ops' = Append(ops, Op("trial_encode", k, "scenes_skip"))
       ELSE UNCHANGED <<files, ops>>
    /\ ppc' = ScorePc(k)
    /\ UNCHANGED <<nonFlow, flags>>

\* get_ssimulacra2(&skip_frames, &<trial>, ..): a scoring round when the cache
\* is absent, which panics when the trial output is
ScoreTrial(k) ==
    /\ ppc = ScorePc(k)
    /\ IF k \in files.caches
       THEN /\ ppc' = IF k < Len(Modifier) THEN TrialPc(k + 1) ELSE "zones"
            /\ UNCHANGED <<files, ops>>
       ELSE /\ ops' = Append(ops, Op("scoring", k, "none"))
            /\ IF k \in files.trials
               THEN /\ files' = [files EXCEPT !.caches = @ \cup {k}]
                    /\ ppc' = IF k < Len(Modifier) THEN TrialPc(k + 1) ELSE "zones"
               ELSE /\ ppc' = "panic"
                    /\ UNCHANGED files
    /\ UNCHANGED <<nonFlow, flags>>

\* zone_overrides(&mut scenes_info, &scenes, &scenes_over, ..): it writes the
\* override file or panics on a scene without scores
EmitOverrides ==
    /\ ppc = "zones"
    /\ ops' = Append(ops, Op("zone_overrides", 0, "scenes"))
    /\ \E ok \in BOOLEAN :
          IF ok
          THEN /\ files' = [files EXCEPT !.scenes_over = "new"]
               /\ ppc' = "final"
          ELSE /\ ppc' = "panic"
               /\ UNCHANGED files
    /\ UNCHANGED <<nonFlow, flags>>

\* scenes_file = scenes_over.clone() or scenes.clone(), as the mode has it
ScenesFileUsed ==
    IF ~flags.single_pass /\ ~flags.parameters THEN "scenes_over" ELSE "scenes"

\* encode_file(&scene_detect, &script, &encode, &temp, &scenes_file, ..)
FinalEncode ==
    /\ ppc = "final"
    /\ ops' = Append(ops, Op("final_encode", 0, ScenesFileUsed))
    /\ \E w \in Written : files' = [files EXCEPT !.encode = w]
    /\ ppc' = "done"
    /\ UNCHANGED <<nonFlow, flags>>

FlowNext ==
    \/ CheckEncode
    \/ SceneDetection
    \/ CheckOverride
    \/ ReadScenes
    \/ SkipDetection
    \/ \E k \in Trials : TrialEncode(k)
    \/ \E k \in Trials : ScoreTrial(k)
    \/ EmitOverrides
    \/ FinalEncode

SearchInit == SearchStart /\ PoolIdle /\ VsIdle /\ OuterIdle

SearchSpec == SearchInit /\ [][SearchNext]_vars

Init == PoolInit /\ SearchIdle /\ VsIdle /\ OuterIdle

Spec == Init /\ [][Next]_vars

\* the stride only names the keys of the mapping: termination is checked for
\* the stride 1
FairInit == Init /\ cycle = 1

\* OS threads: the process does not stop while some thread can take a step
FairSpec == FairInit /\ [][Next]_vars /\ WF_vars(Next)

\* the values compute_frame_ssimulacra2 returns in a long round
ScoreValues == {1, 2}

\* get_ssimu2 at `for score in result_rx` of a round of n frame pairs whose one
\* worker has sent every FrameScore and ended before the first is received
AvgInit ==
    /\ ap = 2
    /\ threads = Threads(ap)
    /\ cycle \in 0..MaxCycle
    /\ srcLen \in 0..MaxResults
    /\ dstLen = srcLen
    /\ total_frames = srcLen
    /\ distort_frames = dstLen
    /\ warned = FrameCountMismatch(distort_frames, total_frames)
    /\ srcPos = srcLen
    /\ dstPos = dstLen
    /\ cursor = srcLen
    /\ mtx = 0
    /\ wpc = [w \in Workers |-> IF w <= threads THEN "exit" ELSE "unspawned"]
    /\ curr_frame = [w \in Workers |-> IF w <= threads THEN srcLen ELSE None]
    /\ src_frame = [w \in Workers |-> None]
    /\ dst_frame = [w \in Workers |-> None]
    /\ spawned = threads
    /\ mpc = "collect"
    /\ \E sc \in [1..srcLen -> ScoreValues] :
          /\ chan = [i \in 1..srcLen |-> <<i - 1, sc[i]>>]
          /\ wscore = [w \in Workers |->
                         IF w <= threads /\ srcLen > 0 THEN sc[srcLen] ELSE None]
    /\ emitted = chan
    /\ results = <<>>
    /\ avg = <<0, 1>>

AvgNext ==
    \/ Receive
    \/ Finish

AvgStart == AvgInit /\ SearchIdle /\ VsIdle /\ OuterIdle

AvgSpec == AvgStart /\ [][AvgNext]_vars

\* the colour configuration of one source file under either encoder
ColourStart ==
    /\ ColourInit /\ FlowIdle
    /\ PoolIdle /\ VsIdle /\ cycle = 1
    /\ \E e \in Encoders :
          args = [encoder |-> e, quantizer |-> 40 * QUnit,
                  quantizer_calc |-> (15 * QUnit) \div 2, quantizer_range |-> <<>>,
                  speed |-> DefaultSpeed(e)]
    /\ clip = [frames |-> 0, quality |-> 100]
    /\ scenes_file = [scenes |-> <<>>, frames |-> 0]
    /\ scenes_info = scenes_file
    /\ scenes_over = [state |-> "absent", scenes |-> <<>>]
    /\ out = [k \in Trials |-> NoOutput]
    /\ cache = [k \in Trials |-> Absent]
    /\ quantizers = [k \in Trials |-> None]
    /\ trial = 1 /\ spc = "idle" /\ enc = NoChild /\ sresults = <<>>
    /\ solved = <<>> /\ trace = <<>>

ColourSpec == ColourStart /\ [][ColourNext]_vars

\* the file checks of process_command for one source file
FlowStart == FlowInit /\ ColourIdle /\ PoolIdle /\ SearchIdle /\ VsIdle /\ cycle = 1

FlowSpec == FlowStart /\ [][FlowNext]_vars

\* one call of get_vs_ssimu2
VsStart == VsInit /\ PoolIdle /\ SearchIdle /\ OuterIdle /\ cycle = 1

VsSpec == VsStart /\ [][VsNext]_vars

\* ------------------------------------------------------------ properties
Indices(seq) == {seq[i][1] : i \in 1..Len(seq)}
InCritical(w) == wpc[w] \in {"read_src", "read_dst", "advance"}
Pairs == Min(srcLen, dstLen)

\* C1: with at least one worker and two decoders that each yield N frames, a
\* finished round has emitted exactly N FrameScores whose indices are exactly
\* 0..N-1; at no time have two FrameScores been emitted with the same index.
C1_ExactIndexSet ==
    /\ Cardinality(Indices(emitted)) = Len(emitted)
    /\ (mpc = "done" /\ threads >= 1 /\ srcLen = dstLen) =>
          /\ Len(emitted) = srcLen
          /\ Indices(emitted) = 0..(srcLen - 1)

C1_Witness ==
    /\ mpc = "done" /\ threads >= 2 /\ srcLen = dstLen /\ srcLen >= 2
    /\ Len(emitted) = srcLen
    /\ emitted[1][1] > emitted[2][1]

\* C2: a worker holds the mutex exactly while it reads the two frames and
\* advances the cursor, at most one worker is in that section, no worker holds
\* the mutex while it computes or sends a score, and the decoders and the cursor
\* change only in a step of the worker that holds the mutex.
C2_LockInv ==
    /\ \A w \in Workers : InCritical(w) <=> mtx = w
    /\ Cardinality({w \in Workers : InCritical(w)}) <= 1
    /\ \A w \in Workers : wpc[w] \in {"compute", "send"} => mtx # w

C2_LockedStep ==
    (srcPos' # srcPos \/ dstPos' # dstPos \/ cursor' # cursor) =>
        /\ mtx \in Workers
        /\ InCritical(mtx)
        /\ wpc'[mtx] # wpc[mtx]

C2_MutexDiscipline == [](C2_LockInv) /\ [][C2_LockedStep]_vars

C2_Witness ==
    \E v, w \in Workers :
        /\ v # w
        /\ wpc[v] = "compute"
        /\ wpc[w] = "read_dst"
        /\ mtx = w

\* C3: every emitted FrameScore with index i carries the score of the i-th
\* reference frame and the i-th distorted frame; a worker that has read its
\* reference frame finds the distorted decoder where no other read has moved it.
C3_AlignedPairs ==
    /\ \A i \in 1..Len(emitted) : emitted[i][2] = Score(emitted[i][1], emitted[i][1])
    /\ \A w \in Workers :
          /\ wpc[w] \in {"compute", "send"} =>
                src_frame[w] = curr_frame[w] /\ dst_frame[w] = curr_frame[w]
          /\ (wpc[w] = "read_dst" /\ src_frame[w] # None) =>
                dstPos = Min(src_frame[w], dstLen)

C3_Witness ==
    /\ threads >= 2
    /\ Len(emitted) >= 2
    /\ emitted[1][1] = 1
    /\ emitted[2][1] = 0

\* C4: under fair scheduling a scoring round ends: every spawned worker has
\* left its loop, the channel is drained and closed, and get_ssimu2 has returned.
C4_RoundTerminates ==
    <>[](/\ mpc = "done"
         /\ \A w \in Workers : w <= threads => wpc[w] = "exit"
         /\ chan = <<>>
         /\ mtx = 0)

C4_Witness ==
    /\ mpc = "done"
    /\ threads >= 2
    /\ Pairs >= 2
    /\ srcLen # dstLen
    /\ \A w \in Workers : wpc[w] = "exit"

\* C5: the number of workers spawned is max(1, available_parallelism / 2).
C5_PoolSize ==
    mpc # "spawn" => spawned = Max(1, ap \div 2)

\* C6: the returned mapping holds exactly one entry (i * cycle) -> s for each
\* emitted FrameScore (i, s), whatever the order of arrival.
C6_IndexKeyedMapping ==
    mpc = "done" =>
        /\ DOMAIN results = {emitted[i][1] * cycle : i \in 1..Len(emitted)}
        /\ \A i \in 1..Len(emitted) : results[emitted[i][1] * cycle] = emitted[i][2]
        /\ Cardinality(DOMAIN results) = Len(emitted)

C6_Witness ==
    /\ mpc = "done"
    /\ cycle >= 2
    /\ Len(emitted) >= 2
    /\ emitted[1][1] > emitted[2][1]
    /\ Cardinality(DOMAIN results) = Len(emitted)

\* C7: with reported frame counts m # n the round warns, does not fail and
\* returns scores for exactly the indices 0..min(m,n)-1, paired by read order.
C7_MismatchBestEffort ==
    (/\ mpc = "done"
     /\ total_frames # None /\ distort_frames # None
     /\ total_frames # distort_frames) =>
        /\ warned
        /\ DOMAIN results = {i * cycle : i \in 0..(Min(total_frames, distort_frames) - 1)}
        /\ \A i \in 0..(Min(total_frames, distort_frames) - 1) :
              results[i * cycle] = Score(i, i)

ActiveRange == quantizer_range(args.quantizer_range, args.encoder)
Events(ev, k) == {i \in 1..Len(trace) : trace[i].ev = ev /\ trace[i].k = k}
InRange(q) == ActiveRange[1] <= q /\ q <= ActiveRange[2]

\* C8: for every range [lo, hi], base quantizer, step and modifier in
\* {-2,-1,1,2}, the value calculate_quantizer returns lies within [lo, hi]
\* (with lo > hi f32::clamp panics and nothing is returned).
C8_TrialQuantizerInRange ==
    /\ \A k \in Trials : quantizers[k] # None => InRange(quantizers[k])
    /\ ~ClampPanics(args) =>
          \A m \in {-2, -1, 1, 2} : InRange(calculate_quantizer(args, m))

C8_Witness ==
    /\ quantizers[4] # None
    /\ args.quantizer + 2 * args.quantizer_calc > ActiveRange[2]
    /\ args.quantizer - 2 * args.quantizer_calc < ActiveRange[1]
    /\ quantizers[1] = ActiveRange[2]
    /\ quantizers[4] = ActiveRange[1]

\* C9: a finished search has run exactly four trial rounds, at
\* clamp(q0 + k*step) for k = +2, +1, -1, -2 in that order; in each round the
\* trial encode, when one ran, had exited before the scoring of its output
\* started, and the fit comes after the four scoring rounds.
C9_FourRoundsInOrder ==
    LET ks == <<2, 1, -1, -2>>
        want(i) == Clamp(args.quantizer + ks[i] * args.quantizer_calc,
                         ActiveRange[1], ActiveRange[2])
        stats == SelectSeq(trace, LAMBDA e : e.ev = "stats")
    IN  /\ spc \in {"score", "create", "write", "stats", "zones", "done"} =>
              enc.state # "running"
        /\ \A i, j \in 1..Len(trace) :
              i < j =>
                 /\ trace[i].ev # "fit"
                 /\ trace[j].ev # "fit" => trace[i].k <= trace[j].k
                 /\ (trace[i].k = trace[j].k /\ trace[j].ev = "encode") =>
                       trace[i].ev \notin {"scorer", "cache_read", "stats"}
        /\ \A i \in 1..Len(trace) :
              trace[i].ev = "fit" => Len(stats) = 4
        /\ \A i \in 1..Len(stats) : stats[i].k = i /\ stats[i].q = want(i)
        /\ spc = "done" => (Len(stats) = 4 /\ trace[Len(trace)].ev = "fit")

C9_Witness ==
    /\ spc = "done"
    /\ \A k \in Trials : Events("encode", k) # {} /\ Events("scorer", k) # {}
    /\ quantizers[1] > quantizers[2]
    /\ quantizers[3] > quantizers[4]

\* C10: in a trial round whose output file and score cache both exist, no step
\* invokes the encoder or the scorer or touches the cache file: the cached
\* mapping is what is loaded, and the scene statistics are computed from it.
C10_Step ==
    \A k \in Trials :
        (/\ trial = k
         /\ spc \in {"exists", "score", "stats"}
         /\ out[k].exists
         /\ cache[k].state = "ok") =>
            /\ cache' = cache
            /\ enc' = enc
            /\ out' = out
            /\ \A i \in 1..Len(trace') : i > Len(trace) =>
                  trace'[i].ev \notin {"encode", "scorer"}
            /\ spc = "exists" => spc' = "score"
            /\ spc = "score" => (spc' = "stats" /\ sresults' = cache[k].map)
            /\ spc = "stats" =>
                  scenes_info' = WithStats(scenes_info, cache[k].map, quantizers[k])

C10_CachedTrialSkipped == [][C10_Step]_vars

C10_Witness ==
    /\ spc = "calc"
    /\ trial = 2
    /\ Events("encode", 1) = {} /\ Events("scorer", 1) = {}
    /\ Events("cache_read", 1) # {}
    /\ \E i \in DOMAIN scenes_info.scenes :
          DOMAIN scenes_info.scenes[i].quantizer_scores # {}

\* no frame lies in two scenes of the description
NonOverlapping(scenes) ==
    \A i, j \in DOMAIN scenes :
        i < j => \/ scenes[i].end_frame < scenes[j].start_frame
                 \/ scenes[j].end_frame < scenes[i].start_frame

RECURSIVE SumLen(_, _)
SumLen(lens, n) == IF n = 0 THEN 0 ELSE lens[n] + SumLen(lens, n - 1)

\* C11: in get_ssimulacra2 the score at canonical frame index f goes into the
\* statistics of scene S exactly when it is > 0 and S.start_frame <= f <=
\* S.end_frame: the round's entry of S is computed from those scores and from
\* no other, a scene without such a score is left as it was, a score <= 0 is in
\* no scene's statistics, and with non-overlapping scenes the scenes together
\* take each valid score at most once.
C11_Step ==
    spc = "stats" =>
        LET key == AsUsize(quantizers[trial])
            In(i) == {f \in DOMAIN sresults :
                         /\ sresults[f] > 0
                         /\ scenes_info.scenes[i].start_frame <= f
                         /\ f <= scenes_info.scenes[i].end_frame}
            taken == [i \in DOMAIN scenes_info.scenes |->
                         IF In(i) = {} THEN 0
                         ELSE Len(scenes_info'.scenes[i].quantizer_scores[key].samples)]
        IN  /\ \A i \in DOMAIN scenes_info.scenes :
                  IF In(i) = {}
                  THEN scenes_info'.scenes[i] = scenes_info.scenes[i]
                  ELSE LET e == scenes_info'.scenes[i].quantizer_scores[key]
                       IN  /\ e.samples = SortedScores(sresults, In(i))
                           /\ e.mean = Norm(SumOver(sresults, In(i)), Cardinality(In(i)))
                           /\ \A n \in 1..Len(e.samples) : e.samples[n] > 0
            /\ NonOverlapping(scenes_info.scenes) =>
                  SumLen(taken, Len(scenes_info.scenes)) <=
                      Cardinality({f \in DOMAIN sresults : sresults[f] > 0})

C11_SceneMembership == [][C11_Step]_vars

C11_Witness ==
    /\ spc = "calc"
    /\ trial > 1
    /\ Len(scenes_info.scenes) = 2
    /\ NonOverlapping(scenes_info.scenes)
    /\ \E f \in DOMAIN sresults : sresults[f] <= 0
    /\ \A i \in DOMAIN scenes_info.scenes :
          /\ AsUsize(quantizers[trial - 1]) \in DOMAIN scenes_info.scenes[i].quantizer_scores
          /\ \E f \in DOMAIN sresults :
                /\ sresults[f] > 0
                /\ scenes_info.scenes[i].start_frame <= f
                /\ f <= scenes_info.scenes[i].end_frame

\* the frames of trial round k whose score went into the statistics of `scene`
ValidIn(k, scene) ==
    {f \in DOMAIN cache[k].map :
        /\ cache[k].map[f] > 0
        /\ scene.start_frame <= f
        /\ f <= scene.end_frame}

\* C12: an entry stored in a scene's quantizer_scores for one trial is not
\* replaced or changed by a later round: after the four rounds a scene that had
\* valid scores in every round holds one entry per trial, and the entry of each
\* trial is the statistics of that trial's round.
C12_EntriesKept ==
    spc \in {"zones", "done"} =>
        \A i \in DOMAIN scenes_info.scenes :
            LET scene == scenes_info.scenes[i]
            IN  (\A k \in Trials : ValidIn(k, scene) # {}) =>
                    /\ Cardinality(DOMAIN scene.quantizer_scores) = Len(Modifier)
                    /\ \A k \in Trials :
                          scene.quantizer_scores[AsUsize(quantizers[k])].samples =
                              SortedScores(cache[k].map, ValidIn(k, scene))

\* C13: when the coefficients fitted for a scene are all zero, the
\* final_quantizer emitted for the scene is the upper bound of the active
\* quantizer range, for both encoder families and every range.
C13_ZeroFitGivesUpperBound ==
    spc = "done" =>
        \A i \in DOMAIN scenes_info.scenes :
            AllZero(scenes_info.scenes[i]) =>
                scenes_info.scenes[i].final_quantizer = ActiveRange[2]

\* C14: zone_overrides does not fail on a scene whose trial data are constant
\* or insufficient: a scene with no quantizer_scores at all, or with fewer than
\* four trial entries, is given the upper bound of the range, and the scenes
\* after it are processed.
C14_InsufficientDataFallback ==
    /\ Events("stats", Len(Modifier)) # {} => spc # "panic"
    /\ spc = "done" =>
          \A i \in DOMAIN scenes_info.scenes :
              Cardinality(DOMAIN scenes_info.scenes[i].quantizer_scores) < Len(Modifier) =>
                  scenes_info.scenes[i].final_quantizer = ActiveRange[2]

\* the integer part of q
IntegerPart(q) == IF q < 0 THEN -(((-q) \div QUnit) * QUnit) ELSE (q \div QUnit) * QUnit

\* C15: for rav1e the emitted final_quantizer is the integer part of the
\* clamped solved q, for every q of the active range; for the other family it
\* is round(4q)/4, the multiple of a quarter nearest to q (a tie goes away from
\* zero).
C15_FinalRounding ==
    spc = "done" =>
        \A i \in DOMAIN scenes_info.scenes :
            LET q == solved[i]
                fq == scenes_info.scenes[i].final_quantizer
            IN  /\ InRange(q)
                /\ IF args.encoder = "rav1e"
                   THEN fq = IntegerPart(q)
                   ELSE /\ fq % (QUnit \div 4) = 0
                        /\ 8 * Abs(fq - q) <= QUnit
                        /\ (8 * Abs(fq - q) = QUnit) => Abs(fq) > Abs(q)

SameBounds(a, b) == a.start_frame = b.start_frame /\ a.end_frame = b.end_frame

\* C16: the override record built from the final_quantizer of scene S is
\* attached to a pristine scene only if that scene has the start_frame and the
\* end_frame of S; a pristine scene that shares one boundary with S does not
\* get the record of S.
C16_ExactBoundaryMatch ==
    spc = "done" =>
        \A j \in DOMAIN scenes_over.scenes :
            scenes_over.scenes[j].zone_overrides # <<>> =>
                \E i \in DOMAIN scenes_info.scenes :
                    /\ SameBounds(scenes_info.scenes[i], scenes_over.scenes[j])
                    /\ scenes_over.scenes[j].zone_overrides =
                          ZoneRecord(args, scenes_info.scenes[i].final_quantizer)

\* C17: zone_overrides leaves the original scene file as it was and writes the
\* override file only; the override file holds the same sequence of scenes, with
\* the same start_frame and end_frame at each position and the same total
\* frame count.
C17_Inv ==
    /\ \A j \in DOMAIN scenes_file.scenes :
          /\ scenes_file.scenes[j].zone_overrides = <<>>
          /\ scenes_file.scenes[j].final_quantizer = None
    /\ scenes_over.state = "ok" =>
          /\ Len(scenes_over.scenes) = Len(scenes_file.scenes)
          /\ scenes_over.frames = scenes_file.frames
          /\ \A j \in DOMAIN scenes_file.scenes :
                SameBounds(scenes_over.scenes[j], scenes_file.scenes[j])

C17_Step ==
    /\ scenes_file' = scenes_file
    /\ scenes_over' # scenes_over => (spc = "zones" /\ scenes_over.state = "absent")

C17_OriginalUntouched == [](C17_Inv) /\ [][C17_Step]_vars

C17_Witness ==
    /\ spc = "done"
    /\ scenes_over.state = "ok"
    /\ Len(scenes_over.scenes) = 2
    /\ \A j \in DOMAIN scenes_over.scenes : scenes_over.scenes[j].zone_overrides # <<>>
    /\ \A j \in DOMAIN scenes_file.scenes : scenes_file.scenes[j].zone_overrides = <<>>

\* C18: in one search every scene has its final_quantizer assigned once, by
\* zone_overrides, and every scene written to the override file carries a
\* zone_overrides record whose quantizer parameter is that scene's own
\* final_quantizer.
C18_OwnQuantizerOnce ==
    /\ spc # "done" =>
          \A i \in DOMAIN scenes_info.scenes : scenes_info.scenes[i].final_quantizer = None
    /\ spc = "done" =>
          /\ Len(scenes_over.scenes) = Len(scenes_info.scenes)
          /\ \A i \in DOMAIN scenes_info.scenes :
                /\ scenes_info.scenes[i].final_quantizer =
                      FinalQuantizer(args.encoder, solved[i])
                /\ SameBounds(scenes_over.scenes[i], scenes_info.scenes[i])
                /\ scenes_over.scenes[i].zone_overrides =
                      ZoneRecord(args, scenes_info.scenes[i].final_quantizer)

\* C19: once a run has computed the statistics of a trial, the persisted scene
\* description holds those quantizer_scores (a later run that reads the scene
\* file finds them), and so does the override file once it is written.
C19_ScoresPersisted ==
    \A i \in DOMAIN scenes_info.scenes :
        /\ scenes_file.scenes[i].quantizer_scores = scenes_info.scenes[i].quantizer_scores
        /\ scenes_over.state = "ok" =>
              scenes_over.scenes[i].quantizer_scores =
                  scenes_info.scenes[i].quantizer_scores

\* C20: in get_vs_ssimu2, when the job counter is found at zero while fewer
\* results than frames have been collected, the run does not crash but asks
\* for a decision; any answer but "yes" ends the process at once, with no
\* mapping returned and no cache or scene output written, and "yes" returns the
\* results collected so far.
C20_Inv ==
    proc = "exited" =>
        /\ vpc = "prompt"
        /\ input # "yes\n"
        /\ vret = NoResult
        /\ \A k \in Trials : cache[k] = Absent /\ out[k] = NoOutput
        /\ scenes_over.state = "absent"

C20_Step ==
    /\ (vpc = "check_jobs" /\ jobs = 0 /\ vpc' # vpc) =>
          /\ vpc' = "prompt"
          /\ proc' = "running"
          /\ vret' = NoResult
    /\ (vpc = "prompt" /\ inflight = {} /\ cb = NoCallback) => proc' # "aborted"
    /\ (vpc = "prompt" /\ (vpc' # vpc \/ input' # input \/ proc' = "exited")) =>
          IF input' = "yes\n"
          THEN /\ vpc' = "done"
               /\ proc' = "running"
               /\ vret' = [state |-> "map", map |-> vresults]
               /\ vresults' = vresults
          ELSE /\ proc' = "exited"
               /\ vret' = NoResult
    /\ proc = "exited" => UNCHANGED vars

C20_StallDecision == [](C20_Inv) /\ [][C20_Step]_vars

C20_Witness ==
    /\ vpc = "prompt"
    /\ proc = "exited"
    /\ inflight = {}
    /\ cb = NoCallback
    /\ jobs = 0
    /\ frames >= 2
    /\ Cardinality(DOMAIN vresults) = 1

\* ---------------------------------------------------------------- C21..C30
RECURSIVE SumScores(_, _)
SumScores(seq, n) == IF n = 0 THEN 0 ELSE seq[n][2] + SumScores(seq, n - 1)
Collected == Len(emitted) - Len(chan)
Mean(n) == Norm(SumScores(emitted, n), n)

C21_Inv ==
    /\ (cycle >= 1 /\ Collected >= 1 /\ Collected <= AvgWindow) =>
          avg = Mean(Collected)
    /\ (cycle >= 1 /\ Collected = AvgWindow + 1) =>
          ((avg # Mean(Collected)) <=>
              (emitted[Collected][2] * AvgWindow # SumScores(emitted, AvgWindow)))
    /\ cycle >= 1 => Cardinality(DOMAIN results) = Collected
    /\ (cycle = 0 /\ Collected >= 1) =>
          /\ Cardinality(DOMAIN results) = 1
          /\ avg = <<emitted[Collected][2], 1>>

C21_Step ==
    chan' # chan =>
        LET s == Head(chan)[2]
            d == Min(Cardinality(DOMAIN results'), AvgWindow)
        IN  \* avg' = avg + (s - avg) / d
            /\ avg'[1] * avg[2] * d = avg'[2] * (avg[1] * d + s * avg[2] - avg[1])
            /\ avg'[2] > 0

Unparsable == spc = "score" /\ cache[trial].state = "corrupt"

C22_Step ==
    /\ Unparsable =>
          /\ spc' = "panic"
          /\ UNCHANGED <<cache, scenes_info, scenes_over, sresults, trace, out, enc>>
    /\ spc = "panic" => UNCHANGED vars

\* C22: when the score cache of a trial exists and cannot be parsed,
\* get_ssimulacra2 panics: the scorer is not run, the cache file is neither
\* removed nor rewritten, no scene's quantizer_scores changes, and nothing
\* happens afterwards.
C22_UnparsableCacheIsFatal == [][C22_Step]_vars

C22_Witness ==
    /\ spc = "panic"
    /\ cache[trial].state = "corrupt"
    /\ quantizers[trial] # None
    /\ trial >= 2
    /\ \E i \in DOMAIN scenes_info.scenes :
          DOMAIN scenes_info.scenes[i].quantizer_scores # {}

\* the size rule of the specification: BT.709, BT.470BG or SD/NTSC
SizeFamily(width, height) ==
    IF width >= 1280 \/ height > 576 THEN "BT709"
    ELSE IF height = 576 THEN "BT470BG"
    ELSE "ST170M"
MatrixGiven == to_matrices(cdata[2]) # "Unspecified"
PrimariesGiven == to_primaries(cdata[4]) # "Unspecified"

\* C23 as stated: an unspecified matrix tag and an unspecified primaries tag
\* are both replaced by the size rule; a specified tag is used as given.
C23_SizeRuleForBoth ==
    cpc = "done" =>
        /\ yuv.matrix_coefficients =
              IF MatrixGiven THEN to_matrices(cdata[2])
              ELSE SizeFamily(src_info.width, src_info.height)
        /\ yuv.color_primaries =
              IF PrimariesGiven THEN to_primaries(cdata[4])
              ELSE SizeFamily(src_info.width, src_info.height)

\* C23 (amended): the matrix follows the size rule. Unspecified primaries are
\* BT.2020 when the matrix used is a BT.2020 one, else BT.709 when the matrix
\* used is BT.709 or width >= 1280 or height > 576, else BT.470BG for height
\* 576, else SMPTE 170M for height 480 or 488, else BT.709. A tag the scorer
\* knows is used as given.
C23_ColourResolution ==
    cpc = "done" =>
        LET w == src_info.width
            h == src_info.height
            m == yuv.matrix_coefficients
        IN  /\ m = IF MatrixGiven THEN to_matrices(cdata[2]) ELSE SizeFamily(w, h)
            /\ PrimariesGiven => yuv.color_primaries = to_primaries(cdata[4])
            /\ ~PrimariesGiven =>
                  /\ m \in {"BT2020NonConstantLuminance", "BT2020ConstantLuminance"}
                        => yuv.color_primaries = "BT2020"
                  /\ (/\ m \notin {"BT2020NonConstantLuminance", "BT2020ConstantLuminance"}
                      /\ (m = "BT709" \/ w >= 1280 \/ h > 576)) =>
                        yuv.color_primaries = "BT709"
                  /\ (m \notin {"BT2020NonConstantLuminance",
                                "BT2020ConstantLuminance", "BT709"}
                      /\ w < 1280 /\ h <= 576) =>
                        yuv.color_primaries =
                            IF h = 576 THEN "BT470BG"
                            ELSE IF h \in {480, 488} THEN "ST170M"
                            ELSE "BT709"

C23_Witness ==
    /\ cpc = "done"
    /\ ~MatrixGiven /\ ~PrimariesGiven
    /\ src_info.width < 1280 /\ src_info.height = 360
    /\ yuv.matrix_coefficients = "ST170M"
    /\ yuv.color_primaries = "BT709"

\* C28: the colour configuration used for scoring is the one the other
\* encoder family would give for the same probed tags and frame size.
C28_EncoderIndependent ==
    cpc = "done" =>
        yuv = YuvConfig(color_data(stream, args.encoder # "rav1e"), src_info)

\* C24: a score cache that this run has created holds, whenever it exists,
\* the complete result mapping of the finished scoring round of its trial.
C24_CacheCompleteWhenPresent ==
    \A k \in Trials :
        (cache[k].state # "absent" /\ Events("scorer", k) # {}) =>
            /\ cache[k].state = "ok"
            /\ out[k].exists
            /\ cache[k].map = ScoreMap(out[k].q)

\* C25: after zone_overrides every scene's final_quantizer lies within the
\* active quantizer range.
C25_FinalQuantizerInRange ==
    spc = "done" =>
        \A i \in DOMAIN scenes_info.scenes :
            InRange(scenes_info.scenes[i].final_quantizer)

\* the quantizers the curve fit of a scene pairs with the mean scores:
\* quantizers.push(quantizer.clone() as f64), the keys of quantizer_scores
FitQuantizers(scene) == {key * QUnit : key \in DOMAIN scene.quantizer_scores}

\* C26: right after the statistics of a trial that this run has encoded, each
\* scene with valid scores holds them paired with the quantizer of that encode.
C26_FitPairsEncodeQuantizer ==
    (/\ trace # <<>>
     /\ trace[Len(trace)].ev = "stats"
     /\ Events("encode", trace[Len(trace)].k) # {}) =>
        \A i \in DOMAIN scenes_info.scenes :
            SceneScores(sresults, scenes_info.scenes[i]) # {} =>
                out[trace[Len(trace)].k].q \in FitQuantizers(scenes_info.scenes[i])

\* C27: the statistics a run stores for a trial were measured on an encode
\* made at the quantizer the run computed for that trial: the trial output
\* that was scored, or whose cached scores were read, has that quantizer.
C27_ReusedOnlyAtSameQuantizer ==
    \A t \in Trials :
        Events("stats", t) # {} =>
            /\ out[t].exists => out[t].q = quantizers[t]
            /\ Events("cache_read", t) # {} =>
                  cache[t].map = ScoreMap(quantizers[t])

\* frames requested whose callback has not returned yet
Outstanding == Cardinality(inflight) + (IF cb = NoCallback THEN 0 ELSE 1)

\* C30: at most `threads` frame requests are outstanding, and the counter
\* never leaves 0..255: no decrement below 0 (which panics in a build with
\* overflow checks and wraps to 255 in one without), no increment above 255.
C30_BoundedRequests ==
    /\ Outstanding <= vthreads
    /\ jobs <= vthreads
    /\ ~(proc = "aborted" /\ cb.pc = "store" /\ cb.reg = 0)
    /\ ~(proc = "aborted" /\ vpc = "inc_store")

OpsRun == {ops[i].op : i \in 1..Len(ops)}
SearchOps == {"skip_detection", "trial_encode", "scoring", "zone_overrides"}
SearchMode == ~flags.single_pass /\ ~flags.parameters
FinalEncodes == {i \in 1..Len(ops) : ops[i].op = "final_encode"}

\* C29 as stated: whenever the override file of an earlier run exists, it is
\* the scene file of the final encode.
C29_OverrideAlwaysUsed ==
    (files.scenes_over = "old" /\ ppc = "done" /\ FinalEncodes # {}) =>
        \A i \in FinalEncodes : ops[i].with = "scenes_over"

C29_Inv ==
    /\ files.scenes_over = "old" =>
          /\ OpsRun \cap SearchOps = {}
          /\ (SearchMode /\ ppc = "done" /\ files.encode # "old") =>
                /\ Cardinality(FinalEncodes) = 1
                /\ \A i \in FinalEncodes : ops[i].with = "scenes_over"
    /\ files.encode = "old" => ops = <<>>
    /\ (files.encode = "old" /\ ppc # "encode_exists") => ppc = "done"

C29_Step ==
    /\ files.scenes_over = "old" => files'.scenes_over = "old"
    /\ files.encode = "old" => files' = files

\* C29 (amended): when the override file exists, no skip-frame scene
\* detection, trial encode, scoring round or override emission runs and the
\* file is left unchanged; in a run that searches (neither --single-pass nor
\* --parameters) it is the scene file of the final encode. When the final
\* output exists nothing runs and no file changes.
C29_ExistingFilesSkipWork == []C29_Inv /\ [][C29_Step]_vars

C29_Witness ==
    /\ ppc = "done"
    /\ SearchMode
    /\ files.scenes_over = "old"
    /\ files.encode = "new"
    /\ files.scenes_skip = "absent"
    /\ files.trials = {}
    /\ ops[Len(ops)] = Op("final_encode", 0, "scenes_over")
====
